---- MODULE Spec2Model ----
(***************************************************************************)
(* Model of the gocache engine (pkg/cache/cache.go): a map from string     *)
(* keys to CacheItem{Value, ExpiresAt} guarded by a sync.RWMutex, with     *)
(* lazy deletion in Get/Exists and a background sweeper goroutine.         *)
(*                                                                         *)
(* Every goroutine is a thread with a position pc.  A step that holds the  *)
(* lock runs the locked region of its method in one action, including the  *)
(* deferred Unlock/RUnlock.  time.Now() reads the variable now, which an   *)
(* independent action advances; two reads may see the same instant.        *)
(***************************************************************************)
EXTENDS Integers, FiniteSets, Sequences, TLC

\* ---------------------------------------------------------------- bounds
MaxTime == 2
MaxTTL == 1
\* the longest request body of the HTTP adapter
MaxBody == 2

Keys == {"a", "b"}
Values == {"v1", "v2"}
Procs == {"p1", "p2"}
Sweeper == "sweeper"
\* the goroutines that run in the base specification: one caller and the sweeper
Callers == {"p1", Sweeper}
Threads == Procs \cup {Sweeper}
TTLs == {-1} \cup (0..MaxTTL)

NoThread == "none"
NilVal == "nil"
\* *time.Time: <<>> is the nil pointer, <<t>> points to the instant t
NilTime == <<>>

VARIABLES
    items,      \* c.items: map[string]*CacheItem
    mu,         \* c.mu: sync.RWMutex
    now,        \* the clock time.Now() reads
    pc,         \* position of every goroutine
    call,       \* the method a caller runs and its arguments
    ret,        \* what the caller's last method returned
    lastMut,    \* history: the last Set/SetWithTTL/Delete/Flush that took effect on a key
    lastKeys    \* history: the last Keys() result, while no write has followed it

vars == <<items, mu, now, pc, call, ret, lastMut, lastKeys>>

\* ---------------------------------------------------------------- data
CacheItem(value, expiresAt) == [Value |-> value, ExpiresAt |-> expiresAt]

NoCall == [op |-> "none", key |-> "a", val |-> NilVal, ttl |-> 0]
NoRet == [found |-> FALSE, val |-> NilVal, keys |-> {}, count |-> 0]

NoMut == [op |-> "none", val |-> NilVal, ttl |-> 0, at |-> 0, over |-> "off"]

\* time.Time.Before / time.Time.After / time.Time.Add
Before(t, u) == t < u
After(t, u) == t > u
Add(t, d) == t + d

\* ---------------------------------------------------------------- sync.RWMutex
\* mu.w is the goroutine that owns the writer side (waiting for readers to
\* drain, or holding the lock); mu.readers are the goroutines holding RLock.
CanRLock == mu.w = NoThread
CanLockBegin == mu.w = NoThread
CanLockAcquire(self) == mu.w = self /\ mu.readers = {}
RLocked(self) == [mu EXCEPT !.readers = @ \cup {self}]
RUnlocked(self) == [mu EXCEPT !.readers = @ \ {self}]
LockBegun(self) == [mu EXCEPT !.w = self]
Unlocked == [mu EXCEPT !.w = NoThread]

\* ---------------------------------------------------------------- map[string]*CacheItem
EmptyMap == [k \in {} |-> CacheItem(NilVal, NilTime)]
Has(m, key) == key \in DOMAIN m
\* line 56 as an assignment of a fresh map holding the one item
PutAlone(m, key, item) == [k \in {key} |-> item]

\* line 56 as an update of the value in place, the stored expiration kept
PutKeepsExpiry(m, key, item) ==
    [k \in DOMAIN m \cup {key} |->
        IF k # key THEN m[k]
        ELSE IF Has(m, key) THEN CacheItem(item.Value, m[key].ExpiresAt) ELSE item]
Put(m, key, item) == [k \in DOMAIN m \cup {key} |-> IF k = key THEN item ELSE m[k]]
Remove(m, key) == [k \in DOMAIN m \ {key} |-> m[k]]
MapLen(m) == Cardinality(DOMAIN m)

\* ---------------------------------------------------------------- method bodies
\* line 51 with "ttl != 0" for "ttl > 0"
NewItemNonZero(value, ttl, t) ==
    IF ttl # 0 THEN CacheItem(value, <<Add(t, ttl)>>) ELSE CacheItem(value, NilTime)

\* SetWithTTL, lines 47-56: the item written when the clock reads t
NewItem(value, ttl, t) ==
    IF ttl > 0 THEN CacheItem(value, <<Add(t, ttl)>>) ELSE CacheItem(value, NilTime)

\* Get, line 69: item.ExpiresAt == nil || time.Now().Before(*item.ExpiresAt)
GetLive(item, t) == item.ExpiresAt = NilTime \/ Before(t, item.ExpiresAt[1])

\* line 83 with receiver and argument exchanged
GetExpiredSwapped(item, t) == item.ExpiresAt # NilTime /\ After(item.ExpiresAt[1], t)

\* Get, line 83: item.ExpiresAt != nil && time.Now().After(*item.ExpiresAt)
GetExpired(item, t) == item.ExpiresAt # NilTime /\ After(t, item.ExpiresAt[1])

\* Get under RLock, lines 62-75.  upgrade: the caller goes on to mu.Lock()
GetFast(m, key, t) ==
    IF ~Has(m, key) THEN [upgrade |-> FALSE, found |-> FALSE, val |-> NilVal]
    ELSE IF GetLive(m[key], t) THEN [upgrade |-> FALSE, found |-> TRUE, val |-> m[key].Value]
    ELSE [upgrade |-> TRUE, found |-> FALSE, val |-> NilVal]

\* lines 76-87 deleting without the re-check of lines 79 and 83
GetSlowNoRecheck(m, key, t) == [found |-> FALSE, val |-> NilVal, items |-> Remove(m, key)]

\* Get under Lock, lines 76-87
GetSlow(m, key, t) ==
    IF ~Has(m, key) THEN [found |-> FALSE, val |-> NilVal, items |-> m]
    ELSE IF GetExpired(m[key], t) THEN [found |-> FALSE, val |-> NilVal, items |-> Remove(m, key)]
    ELSE [found |-> TRUE, val |-> m[key].Value, items |-> m]

\* Get, lines 60-88, run with no other goroutine between its two locked
\* regions and with both reads of the clock giving t
GetAlone(m, key, t) ==
    LET f == GetFast(m, key, t) IN
        IF f.upgrade THEN GetSlow(m, key, t)
        ELSE [found |-> f.found, val |-> f.val, items |-> m]

\* lines 94-99 without the delete of line 96
DeleteResultKeeps(m, key) == [existed |-> Has(m, key), items |-> m]

\* Delete, lines 94-99
DeleteResult(m, key) ==
    [existed |-> Has(m, key), items |-> IF Has(m, key) THEN Remove(m, key) ELSE m]

\* Exists, line 109
ExistsLive(item, t) == item.ExpiresAt = NilTime \/ Before(t, item.ExpiresAt[1])

\* line 121 with the negation of line 109 as its test
ExistsExpiredNotBefore(item, t) == item.ExpiresAt # NilTime /\ ~Before(t, item.ExpiresAt[1])

\* Exists, line 121
ExistsExpired(item, t) == item.ExpiresAt # NilTime /\ After(t, item.ExpiresAt[1])

\* Exists under RLock, lines 103-114
ExistsFast(m, key, t) ==
    IF ~Has(m, key) THEN [upgrade |-> FALSE, found |-> FALSE]
    ELSE IF ExistsLive(m[key], t) THEN [upgrade |-> FALSE, found |-> TRUE]
    ELSE [upgrade |-> TRUE, found |-> FALSE]

\* Exists under Lock, lines 115-125
ExistsSlow(m, key, t) ==
    IF ~Has(m, key) THEN [found |-> FALSE, items |-> m]
    ELSE IF ExistsExpired(m[key], t) THEN [found |-> FALSE, items |-> Remove(m, key)]
    ELSE [found |-> TRUE, items |-> m]

\* Exists, lines 102-126, run with no other goroutine between its two locked
\* regions and with both reads of the clock giving t
ExistsAlone(m, key, t) ==
    LET f == ExistsFast(m, key, t) IN
        IF f.upgrade THEN ExistsSlow(m, key, t)
        ELSE [found |-> f.found, items |-> m]

\* line 136 with "!now.Before" for "now.After"
KeysSkipNotBefore(item, t) == item.ExpiresAt # NilTime /\ ~Before(t, item.ExpiresAt[1])

\* Keys, line 136: the entries the enumeration skips
KeysSkip(item, t) == item.ExpiresAt # NilTime /\ After(t, item.ExpiresAt[1])

\* Keys, lines 132-142 (the order of the slice is the map's iteration order: a set)
KeysResult(m, t) == {k \in DOMAIN m : ~KeysSkip(m[k], t)}

\* lines 149-151 with the count taken after the map is replaced
FlushResultCountAfter(m) == [count |-> MapLen(EmptyMap), items |-> EmptyMap]

\* Flush, lines 149-151
FlushResult(m) == [count |-> MapLen(m), items |-> EmptyMap]

\* line 157 counting only the entries that never expire
SizeResultLive(m) == Cardinality({k \in DOMAIN m : m[k].ExpiresAt = NilTime})

\* Size, line 157
SizeResult(m) == MapLen(m)

\* line 175 with "!now.Before" for "now.After"
CleanupExpiredNotBefore(item, t) == item.ExpiresAt # NilTime /\ ~Before(t, item.ExpiresAt[1])

\* line 175 with "== nil ||" for "!= nil &&"
CleanupExpiredNilToo(item, t) == item.ExpiresAt = NilTime \/ After(t, item.ExpiresAt[1])

\* line 175 with "now.Before" for "now.After"
CleanupExpiredBefore(item, t) == item.ExpiresAt # NilTime /\ Before(t, item.ExpiresAt[1])

\* cleanup, line 175: the entries the sweep deletes
CleanupExpired(item, t) == item.ExpiresAt # NilTime /\ After(t, item.ExpiresAt[1])

\* lines 174-178 leaving the loop after the first delete
CleanupResultFirst(m, t) ==
    LET e == {x \in DOMAIN m : m[x].ExpiresAt # NilTime /\ After(t, m[x].ExpiresAt[1])}
    IN IF e = {} THEN m ELSE [k \in DOMAIN m \ {CHOOSE x \in e : TRUE} |-> m[k]]

\* cleanup, lines 173-178
CleanupResult(m, t) == [k \in {x \in DOMAIN m : ~CleanupExpired(m[x], t)} |-> m[k]]

\* ---------------------------------------------------------------- history
\* the last explicit mutation that took effect on a key: the write as it was
\* called (at: the clock SetWithTTL read on line 52, 0 when it read none), or
\* a Delete or a Flush
\* a Delete or a Flush.  over, kept only where it is switched on (not "off"),
\* tells what the write replaced on line 56: "none" (no entry, or one without
\* expiration), "ttl" (an entry with an expiration not yet passed) or "past"
\* (an entry still stored whose expiration had passed).
Overwritten(m, key, t) ==
    IF ~Has(m, key) \/ m[key].ExpiresAt = NilTime THEN "none"
    ELSE IF After(t, m[key].ExpiresAt[1]) THEN "past" ELSE "ttl"
PutMut(op, val, ttl, at, over) ==
    [op |-> op, val |-> val, ttl |-> ttl, at |-> IF ttl > 0 THEN at ELSE 0, over |-> over]
GoneMut(op) == [op |-> op, val |-> NilVal, ttl |-> 0, at |-> 0, over |-> "off"]

\* the history of Keys() calls, kept only where on is set: keys is the last
\* result and valid says that no Set, SetWithTTL, Delete or Flush took effect
\* since; between holds what ran since ("read": a step of Get or Exists,
\* "sweep": a cleanup); second says that the last Keys() followed a valid one,
\* and ran then holds what ran between the two
NoKeys(on) ==
    [on |-> on, valid |-> FALSE, keys |-> {}, between |-> {}, second |-> FALSE, ran |-> {}]
KeysListed(h, keys) ==
    IF ~h.on THEN h
    ELSE [on |-> TRUE, valid |-> TRUE, keys |-> keys, between |-> {},
          second |-> h.valid, ran |-> h.between]
KeysWritten(h) == NoKeys(h.on)
KeysBetween(h, what) ==
    IF h.on /\ h.valid THEN [h EXCEPT !.between = @ \cup {what}] ELSE h

\* ---------------------------------------------------------------- initial state
\* New, lines 22-37: an empty map, the mutex free, the sweeper started
Init ==
    /\ items = EmptyMap
    /\ mu = [w |-> NoThread, readers |-> {}]
    /\ now = 0
    /\ pc = [th \in Threads |-> IF th \in Callers THEN "idle" ELSE "off"]
    /\ call = [p \in Procs |-> NoCall]
    /\ ret = [p \in Procs |-> NoRet]
    /\ lastMut = [k \in Keys |-> NoMut]
    /\ lastKeys = NoKeys(FALSE)

\* ---------------------------------------------------------------- the clock
ClockAdvance ==
    /\ now < MaxTime
    /\ now' = now + 1
    /\ UNCHANGED <<items, mu, pc, call, ret, lastMut, lastKeys>>

\* ---------------------------------------------------------------- callers
Free(p) == pc[p] \in {"idle", "done"}

\* a caller enters a method that starts with c.mu.Lock()
Invoke(p, c, at) ==
    /\ Free(p)
    /\ call' = [call EXCEPT ![p] = c]
    /\ pc' = [pc EXCEPT ![p] = at]
    /\ UNCHANGED <<items, mu, now, ret, lastMut, lastKeys>>

\* Set, lines 39-41: return c.SetWithTTL(key, value, 0)
CallSet(p) ==
    \E k \in Keys, v \in Values :
        Invoke(p, [op |-> "SetWithTTL", key |-> k, val |-> v, ttl |-> 0], "lock")

CallSetWithTTL(p) ==
    \E k \in Keys, v \in Values, ttl \in TTLs :
        Invoke(p, [op |-> "SetWithTTL", key |-> k, val |-> v, ttl |-> ttl], "lock")

\* SetWithTTL, line 43, called with one fixed value (Set is the call with ttl 0)
CallWrite(p) ==
    \E k \in Keys, ttl \in TTLs :
        Invoke(p, [op |-> "SetWithTTL", key |-> k, val |-> "v1", ttl |-> ttl], "lock")

\* SetWithTTL, line 43, called with a ttl that sets an expiration (line 51)
CallSetExpiring(p) ==
    \E k \in Keys, v \in Values, ttl \in 1..MaxTTL :
        Invoke(p, [op |-> "SetWithTTL", key |-> k, val |-> v, ttl |-> ttl], "lock")

\* Set, line 39, called once by each caller, each on a key of its own
OwnKey(p) == IF p = "p1" THEN "a" ELSE "b"
CallSetOwn(p) ==
    /\ pc[p] = "idle"
    /\ \E v \in Values :
          Invoke(p, [op |-> "SetWithTTL", key |-> OwnKey(p), val |-> v, ttl |-> 0], "lock")

\* Get, line 60, called once every caller's Set has returned
SetsReturned ==
    \A q \in Procs : call[q].op = "Get" \/ (call[q].op = "SetWithTTL" /\ pc[q] = "done")
CallGetAfterSets(p) ==
    /\ SetsReturned
    /\ \E k \in Keys : Invoke(p, [NoCall EXCEPT !.op = "Get", !.key = k], "rlock")

\* the methods called by concurrent callers on one key
ConcKey == "a"
CallConcWrite(p) ==
    \E v \in Values, ttl \in 0..MaxTTL :
        Invoke(p, [op |-> "SetWithTTL", key |-> ConcKey, val |-> v, ttl |-> ttl], "lock")
CallConcExpiring(p) ==
    \E ttl \in 1..MaxTTL :
        Invoke(p, [op |-> "SetWithTTL", key |-> ConcKey, val |-> "v1", ttl |-> ttl], "lock")
CallConcRead(p) ==
    \E op \in {"Get", "Exists"} :
        Invoke(p, [NoCall EXCEPT !.op = op, !.key = ConcKey], "rlock")
CallConcOther(p) ==
    \/ \E op \in {"Delete", "Flush"} :
          Invoke(p, [NoCall EXCEPT !.op = op, !.key = ConcKey], "lock")
    \/ \E op \in {"Keys", "Size"} :
          Invoke(p, [NoCall EXCEPT !.op = op, !.key = ConcKey], "rlock")

CallGet(p) ==
    \E k \in Keys : Invoke(p, [NoCall EXCEPT !.op = "Get", !.key = k], "rlock")

CallDelete(p) ==
    \E k \in Keys : Invoke(p, [NoCall EXCEPT !.op = "Delete", !.key = k], "lock")

CallExists(p) ==
    \E k \in Keys : Invoke(p, [NoCall EXCEPT !.op = "Exists", !.key = k], "rlock")

CallKeys(p) == Invoke(p, [NoCall EXCEPT !.op = "Keys"], "rlock")

CallFlush(p) == Invoke(p, [NoCall EXCEPT !.op = "Flush"], "lock")

CallSize(p) == Invoke(p, [NoCall EXCEPT !.op = "Size"], "rlock")

\* c.mu.RLock()
RLock(p) ==
    /\ pc[p] = "rlock"
    /\ CanRLock
    /\ mu' = RLocked(p)
    /\ pc' = [pc EXCEPT ![p] = "r"]
    /\ UNCHANGED <<items, now, call, ret, lastMut, lastKeys>>

\* c.mu.Lock(): take the writer side, then wait until the readers have left
LockBegin(th) ==
    /\ pc[th] = "lock"
    /\ CanLockBegin
    /\ mu' = LockBegun(th)
    /\ pc' = [pc EXCEPT ![th] = "wait"]
    /\ UNCHANGED <<items, now, call, ret, lastMut, lastKeys>>

LockAcquire(th) ==
    /\ pc[th] = "wait"
    /\ CanLockAcquire(th)
    /\ pc' = [pc EXCEPT ![th] = "w"]
    /\ UNCHANGED <<items, mu, now, call, ret, lastMut, lastKeys>>

\* SetWithTTL, lines 46-57, under the lock
SetWithTTL(p) ==
    /\ pc[p] = "w"
    /\ call[p].op = "SetWithTTL"
    /\ LET item == NewItem(call[p].val, call[p].ttl, now) IN
        /\ items' = Put(items, call[p].key, item)
        /\ lastMut' = [lastMut EXCEPT ![call[p].key] =
                PutMut(call[p].op, call[p].val, call[p].ttl, now,
                       IF @.over = "off" THEN "off" ELSE Overwritten(items, call[p].key, now))]
    /\ mu' = Unlocked
    /\ ret' = [ret EXCEPT ![p] = NoRet]
    /\ pc' = [pc EXCEPT ![p] = "done"]
    /\ lastKeys' = KeysWritten(lastKeys)
    /\ UNCHANGED <<now, call>>

\* lines 62-75 with the RUnlock of line 75 left out
GetReadHolding(p) ==
    /\ pc[p] = "r"
    /\ call[p].op = "Get"
    /\ LET g == GetFast(items, call[p].key, now) IN
        /\ ret' = [ret EXCEPT ![p] = [NoRet EXCEPT !.found = g.found, !.val = g.val]]
        /\ pc' = [pc EXCEPT ![p] = IF g.upgrade THEN "lock" ELSE "done"]
        /\ mu' = IF g.upgrade THEN mu ELSE RUnlocked(p)
    /\ lastKeys' = KeysBetween(lastKeys, "read")
    /\ UNCHANGED <<items, now, call, lastMut>>

\* Get, lines 62-75, under the shared lock
GetRead(p) ==
    /\ pc[p] = "r"
    /\ call[p].op = "Get"
    /\ LET g == GetFast(items, call[p].key, now) IN
        /\ ret' = [ret EXCEPT ![p] = [NoRet EXCEPT !.found = g.found, !.val = g.val]]
        /\ pc' = [pc EXCEPT ![p] = IF g.upgrade THEN "lock" ELSE "done"]
    /\ mu' = RUnlocked(p)
    /\ lastKeys' = KeysBetween(lastKeys, "read")
    /\ UNCHANGED <<items, now, call, lastMut>>

\* Get, lines 77-87, under the exclusive lock
GetRecheck(p) ==
    /\ pc[p] = "w"
    /\ call[p].op = "Get"
    /\ LET g == GetSlow(items, call[p].key, now) IN
        /\ items' = g.items
        /\ ret' = [ret EXCEPT ![p] = [NoRet EXCEPT !.found = g.found, !.val = g.val]]
    /\ mu' = Unlocked
    /\ pc' = [pc EXCEPT ![p] = "done"]
    /\ lastKeys' = KeysBetween(lastKeys, "read")
    /\ UNCHANGED <<now, call, lastMut>>

\* Delete, lines 91-99
Delete(p) ==
    /\ pc[p] = "w"
    /\ call[p].op = "Delete"
    /\ LET d == DeleteResult(items, call[p].key) IN
        /\ items' = d.items
        /\ ret' = [ret EXCEPT ![p] = [NoRet EXCEPT !.found = d.existed]]
    /\ lastMut' = [lastMut EXCEPT ![call[p].key] = GoneMut("Delete")]
    /\ mu' = Unlocked
    /\ pc' = [pc EXCEPT ![p] = "done"]
    /\ lastKeys' = KeysWritten(lastKeys)
    /\ UNCHANGED <<now, call>>

\* Exists, lines 103-114, under the shared lock
ExistsRead(p) ==
    /\ pc[p] = "r"
    /\ call[p].op = "Exists"
    /\ LET e == ExistsFast(items, call[p].key, now) IN
        /\ ret' = [ret EXCEPT ![p] = [NoRet EXCEPT !.found = e.found]]
        /\ pc' = [pc EXCEPT ![p] = IF e.upgrade THEN "lock" ELSE "done"]
    /\ mu' = RUnlocked(p)
    /\ lastKeys' = KeysBetween(lastKeys, "read")
    /\ UNCHANGED <<items, now, call, lastMut>>

\* Exists, lines 116-125, under the exclusive lock
ExistsRecheck(p) ==
    /\ pc[p] = "w"
    /\ call[p].op = "Exists"
    /\ LET e == ExistsSlow(items, call[p].key, now) IN
        /\ items' = e.items
        /\ ret' = [ret EXCEPT ![p] = [NoRet EXCEPT !.found = e.found]]
    /\ mu' = Unlocked
    /\ pc' = [pc EXCEPT ![p] = "done"]
    /\ lastKeys' = KeysBetween(lastKeys, "read")
    /\ UNCHANGED <<now, call, lastMut>>

\* lines 129-142 deleting the entries the scan skips, as Get does
KeysScanDeleting(p) ==
    /\ pc[p] = "r"
    /\ call[p].op = "Keys"
    /\ ret' = [ret EXCEPT ![p] = [NoRet EXCEPT !.keys = KeysResult(items, now)]]
    /\ items' = [k \in KeysResult(items, now) |-> items[k]]
    /\ mu' = RUnlocked(p)
    /\ pc' = [pc EXCEPT ![p] = "done"]
    /\ lastKeys' = KeysListed(lastKeys, KeysResult(items, now))
    /\ UNCHANGED <<now, call, lastMut>>

\* Keys, lines 129-142
KeysScan(p) ==
    /\ pc[p] = "r"
    /\ call[p].op = "Keys"
    /\ ret' = [ret EXCEPT ![p] = [NoRet EXCEPT !.keys = KeysResult(items, now)]]
    /\ mu' = RUnlocked(p)
    /\ pc' = [pc EXCEPT ![p] = "done"]
    /\ lastKeys' = KeysListed(lastKeys, KeysResult(items, now))
    /\ UNCHANGED <<items, now, call, lastMut>>

\* Flush, lines 146-151
Flush(p) ==
    /\ pc[p] = "w"
    /\ call[p].op = "Flush"
    /\ LET f == FlushResult(items) IN
        /\ items' = f.items
        /\ ret' = [ret EXCEPT ![p] = [NoRet EXCEPT !.count = f.count]]
    /\ lastMut' = [k \in Keys |-> GoneMut("Flush")]
    /\ mu' = Unlocked
    /\ pc' = [pc EXCEPT ![p] = "done"]
    /\ lastKeys' = KeysWritten(lastKeys)
    /\ UNCHANGED <<now, call>>

\* Size, lines 155-157
Size(p) ==
    /\ pc[p] = "r"
    /\ call[p].op = "Size"
    /\ ret' = [ret EXCEPT ![p] = [NoRet EXCEPT !.count = SizeResult(items)]]
    /\ mu' = RUnlocked(p)
    /\ pc' = [pc EXCEPT ![p] = "done"]
    /\ UNCHANGED <<items, now, call, lastMut, lastKeys>>

\* ---------------------------------------------------------------- the sweeper
\* startCleanup, lines 164-165: a tick arrives on ticker.C
SweepTick ==
    /\ pc[Sweeper] = "idle"
    /\ pc' = [pc EXCEPT ![Sweeper] = "lock"]
    /\ UNCHANGED <<items, mu, now, call, ret, lastMut, lastKeys>>

\* cleanup, lines 170-178, under the exclusive lock
Cleanup ==
    /\ pc[Sweeper] = "w"
    /\ items' = CleanupResult(items, now)
    /\ mu' = Unlocked
    /\ pc' = [pc EXCEPT ![Sweeper] = "idle"]
    /\ lastKeys' = KeysBetween(lastKeys, "sweep")
    /\ UNCHANGED <<now, call, ret, lastMut>>

\* ---------------------------------------------------------------- specification
Next ==
    \/ ClockAdvance
    \/ \E p \in Procs : CallSet(p)
    \/ \E p \in Procs : CallSetWithTTL(p)
    \/ \E p \in Procs : CallGet(p)
    \/ \E p \in Procs : CallDelete(p)
    \/ \E p \in Procs : CallExists(p)
    \/ \E p \in Procs : CallKeys(p)
    \/ \E p \in Procs : CallFlush(p)
    \/ \E p \in Procs : CallSize(p)
    \/ \E p \in Procs : RLock(p)
    \/ \E th \in Threads : LockBegin(th)
    \/ \E th \in Threads : LockAcquire(th)
    \/ \E p \in Procs : SetWithTTL(p)
    \/ \E p \in Procs : GetRead(p)
    \/ \E p \in Procs : GetRecheck(p)
    \/ \E p \in Procs : Delete(p)
    \/ \E p \in Procs : ExistsRead(p)
    \/ \E p \in Procs : ExistsRecheck(p)
    \/ \E p \in Procs : KeysScan(p)
    \/ \E p \in Procs : Flush(p)
    \/ \E p \in Procs : Size(p)
    \/ SweepTick
    \/ Cleanup

Spec == Init /\ [][Next]_vars

\* The same engine with the history of Keys() calls switched on, for callers
\* that write with Set/SetWithTTL and read with Get, Exists and Keys.  What
\* Keys() lists does not depend on the values stored: the writes store one value.
InitKeys ==
    /\ items = EmptyMap
    /\ mu = [w |-> NoThread, readers |-> {}]
    /\ now = 0
    /\ pc = [th \in Threads |-> IF th \in Callers THEN "idle" ELSE "off"]
    /\ call = [p \in Procs |-> NoCall]
    /\ ret = [p \in Procs |-> NoRet]
    /\ lastMut = [k \in Keys |-> NoMut]
    /\ lastKeys = NoKeys(TRUE)

NextKeys ==
    \/ ClockAdvance
    \/ \E p \in Procs : CallWrite(p)
    \/ \E p \in Procs : CallGet(p)
    \/ \E p \in Procs : CallExists(p)
    \/ \E p \in Procs : CallKeys(p)
    \/ \E p \in Procs : RLock(p)
    \/ \E th \in Threads : LockBegin(th)
    \/ \E th \in Threads : LockAcquire(th)
    \/ \E p \in Procs : SetWithTTL(p)
    \/ \E p \in Procs : GetRead(p)
    \/ \E p \in Procs : GetRecheck(p)
    \/ \E p \in Procs : ExistsRead(p)
    \/ \E p \in Procs : ExistsRecheck(p)
    \/ \E p \in Procs : KeysScan(p)
    \/ SweepTick
    \/ Cleanup

SpecKeys == InitKeys /\ [][NextKeys]_vars

\* The same engine with the history of what a write replaced switched on, for
\* a caller that writes with Set, or with SetWithTTL and a positive ttl, and
\* reads with Get.
InitWrites ==
    /\ items = EmptyMap
    /\ mu = [w |-> NoThread, readers |-> {}]
    /\ now = 0
    /\ pc = [th \in Threads |-> IF th \in Callers THEN "idle" ELSE "off"]
    /\ call = [p \in Procs |-> NoCall]
    /\ ret = [p \in Procs |-> NoRet]
    /\ lastMut = [k \in Keys |-> [NoMut EXCEPT !.over = "none"]]
    /\ lastKeys = NoKeys(FALSE)

NextWrites ==
    \/ ClockAdvance
    \/ \E p \in Procs : CallSet(p)
    \/ \E p \in Procs : CallSetExpiring(p)
    \/ \E p \in Procs : CallGet(p)
    \/ \E p \in Procs : RLock(p)
    \/ \E th \in Threads : LockBegin(th)
    \/ \E th \in Threads : LockAcquire(th)
    \/ \E p \in Procs : SetWithTTL(p)
    \/ \E p \in Procs : GetRead(p)
    \/ \E p \in Procs : GetRecheck(p)
    \/ SweepTick
    \/ Cleanup

SpecWrites == InitWrites /\ [][NextWrites]_vars

\* Two callers and the sweeper: each caller writes its own key with Set, all
\* at once; when the writes have returned the callers read with Get, all at
\* once.  Set stores no expiration, so no Get leaves the fast path of line 69
\* for the re-check under the exclusive lock.
InitPar ==
    /\ items = EmptyMap
    /\ mu = [w |-> NoThread, readers |-> {}]
    /\ now = 0
    /\ pc = [th \in Threads |-> "idle"]
    /\ call = [p \in Procs |-> NoCall]
    /\ ret = [p \in Procs |-> NoRet]
    /\ lastMut = [k \in Keys |-> NoMut]
    /\ lastKeys = NoKeys(FALSE)

NextPar ==
    \/ ClockAdvance
    \/ \E p \in Procs : CallSetOwn(p)
    \/ \E p \in Procs : CallGetAfterSets(p)
    \/ \E p \in Procs : RLock(p)
    \/ \E th \in Threads : LockBegin(th)
    \/ \E th \in Threads : LockAcquire(th)
    \/ \E p \in Procs : SetWithTTL(p)
    \/ \E p \in Procs : GetRead(p)
    \/ SweepTick
    \/ Cleanup

SpecPar == InitPar /\ [][NextPar]_vars

\* Two callers and the sweeper racing on one key: writes with Set and
\* SetWithTTL, reads with Get and Exists.
NextRace ==
    \/ ClockAdvance
    \/ \E p \in Procs : CallConcWrite(p)
    \/ \E p \in Procs : CallConcRead(p)
    \/ \E p \in Procs : RLock(p)
    \/ \E th \in Threads : LockBegin(th)
    \/ \E th \in Threads : LockAcquire(th)
    \/ \E p \in Procs : SetWithTTL(p)
    \/ \E p \in Procs : GetRead(p)
    \/ \E p \in Procs : GetRecheck(p)
    \/ \E p \in Procs : ExistsRead(p)
    \/ \E p \in Procs : ExistsRecheck(p)
    \/ SweepTick
    \/ Cleanup

SpecRace == InitPar /\ [][NextRace]_vars

\* Two callers and the sweeper, every method of the engine called
\* concurrently, all calls on one key; the writes store one value with an
\* expiration.
NextConc ==
    \/ ClockAdvance
    \/ \E p \in Procs : CallConcExpiring(p)
    \/ \E p \in Procs : CallConcRead(p)
    \/ \E p \in Procs : CallConcOther(p)
    \/ \E p \in Procs : RLock(p)
    \/ \E th \in Threads : LockBegin(th)
    \/ \E th \in Threads : LockAcquire(th)
    \/ \E p \in Procs : SetWithTTL(p)
    \/ \E p \in Procs : GetRead(p)
    \/ \E p \in Procs : GetRecheck(p)
    \/ \E p \in Procs : Delete(p)
    \/ \E p \in Procs : ExistsRead(p)
    \/ \E p \in Procs : ExistsRecheck(p)
    \/ \E p \in Procs : KeysScan(p)
    \/ \E p \in Procs : Flush(p)
    \/ \E p \in Procs : Size(p)
    \/ SweepTick
    \/ Cleanup

SpecConc == InitPar /\ [][NextConc]_vars

\* The engine with callers that never call Get or Exists: they write and ask
\* Size(), so only the sweeper removes entries.  The ticker keeps ticking
\* (line 164), sync.RWMutex hands the lock to a waiting Lock() (a goroutine
\* blocked in Lock is not starved), and a goroutine inside a method runs on
\* to its return.
NextSweep ==
    \/ ClockAdvance
    \/ \E p \in Procs : CallWrite(p)
    \/ \E p \in Procs : CallSize(p)
    \/ \E p \in Procs : RLock(p)
    \/ \E th \in Threads : LockBegin(th)
    \/ \E th \in Threads : LockAcquire(th)
    \/ \E p \in Procs : SetWithTTL(p)
    \/ \E p \in Procs : Size(p)
    \/ SweepTick
    \/ Cleanup

CallerRuns ==
    \E p \in Procs : RLock(p) \/ LockBegin(p) \/ LockAcquire(p) \/ SetWithTTL(p) \/ Size(p)

SpecSweep ==
    /\ Init /\ [][NextSweep]_vars
    /\ WF_vars(SweepTick)
    /\ SF_vars(LockBegin(Sweeper))
    /\ WF_vars(LockAcquire(Sweeper))
    /\ WF_vars(Cleanup)
    /\ WF_vars(CallerRuns)


\* ---------------------------------------------------------------- HTTP adapter
\* pkg/http/handlers/handlers.go.  A Go string is a sequence of characters;
\* the alphabet has one whitespace character and one that is not.
Chars == {" ", "x"}
Bodies == UNION {[1..n -> Chars] : n \in 0..MaxBody}
\* the values of the key header and of the key query parameter ("": not sent)
KeyParams == {"", "a"}
\* the values of the ttl-seconds header (the empty sequence: not sent)
TTLHeaders == {<<>>, <<"0">>, <<"1">>, <<"x">>}

\* a string held in the cache as a value of type any
StringVal(str) == [kind |-> "string", chars |-> str]

\* unicode.IsSpace, restricted to the alphabet
IsSpace(c) == c = " "

\* strings.TrimSpace: the string without its leading and trailing white space
RECURSIVE TrimLeft(_)
TrimLeft(str) ==
    IF str # <<>> /\ IsSpace(Head(str)) THEN TrimLeft(Tail(str)) ELSE str
RECURSIVE TrimRight(_)
TrimRight(str) ==
    IF str # <<>> /\ IsSpace(str[Len(str)])
        THEN TrimRight(SubSeq(str, 1, Len(str) - 1)) ELSE str
TrimSpace(str) == TrimRight(TrimLeft(str))

\* toString, lines 94-103: a string as it is, a []byte converted, anything
\* else as fmt.Sprintf("%v") renders it (text: that rendering)
toString(v) ==
    CASE v.kind = "string" -> v.chars
      [] v.kind = "bytes" -> v.chars
      [] OTHER -> v.text

\* strconv.ParseInt(s, 10, 64) on short inputs: an optional sign, then digits
Digits == <<"0", "1", "2", "3", "4", "5", "6", "7", "8", "9">>
IsDigit(c) == \E i \in 1..Len(Digits) : Digits[i] = c
DigitValue(c) == (CHOOSE i \in 1..Len(Digits) : Digits[i] = c) - 1
RECURSIVE ParseUint(_)
ParseUint(str) ==
    IF str = <<>> THEN 0
    ELSE ParseUint(SubSeq(str, 1, Len(str) - 1)) * 10 + DigitValue(str[Len(str)])
ParseInt(str) ==
    LET signed == str # <<>> /\ Head(str) \in {"+", "-"}
        digits == IF signed THEN Tail(str) ELSE str
    IN IF digits = <<>> \/ \E i \in 1..Len(digits) : ~IsDigit(digits[i])
           THEN [err |-> TRUE, n |-> 0]
           ELSE [err |-> FALSE,
                 n |-> IF signed /\ Head(str) = "-" THEN 0 - ParseUint(digits)
                       ELSE ParseUint(digits)]

\* lines 18-21, 45-48, 78-81: the key header, else the key query parameter
RequestKey(header, query) == IF header = "" THEN query ELSE header

\* the status and body of a response
Response(status, body) == [status |-> status, body |-> body]
\* the request as served: the route, the key, the body and the ttl asked for
Request(route, key, body, ttl) ==
    [op |-> route, key |-> key, val |-> body, ttl |-> ttl]

\* GET, line 35: the bytes written to the response
GETBody(v) == TrimSpace(toString(v))

\* lines 61-69: the ttl passed to the store, 0 where the handler calls Set
SETTTL(ttlHeader) ==
    IF ttlHeader # <<>> /\ ~ParseInt(ttlHeader).err /\ ParseInt(ttlHeader).n > 0
        THEN ParseInt(ttlHeader).n ELSE 0

\* a handler runs its call of the store when the lock is free
LockFree == mu.w = NoThread /\ mu.readers = {}

\* GET, lines 16-37, with the Get of the store (lines 60-88 of cache.go)
HttpGET(p) ==
    /\ Free(p) /\ LockFree
    /\ \E header \in KeyParams, query \in KeyParams :
         LET key == RequestKey(header, query)
             g == GetAlone(items, key, now)
         IN /\ call' = [call EXCEPT ![p] = Request("GET", key, <<>>, 0)]
            /\ IF key = ""
                 THEN /\ ret' = [ret EXCEPT ![p] = Response(400, <<>>)]
                      /\ UNCHANGED items
                 ELSE /\ items' = g.items
                      /\ ret' = [ret EXCEPT ![p] =
                            IF g.found THEN Response(200, GETBody(g.val))
                            ELSE Response(404, <<>>)]
    /\ pc' = [pc EXCEPT ![p] = "done"]
    /\ lastKeys' = KeysBetween(lastKeys, "read")
    /\ UNCHANGED <<mu, now, lastMut>>

\* SET, lines 42-72, with the SetWithTTL of the store (Set calls it with 0)
HttpSET(p) ==
    /\ Free(p) /\ LockFree
    /\ \E header \in KeyParams, query \in KeyParams, body \in Bodies, ttlHeader \in TTLHeaders :
         LET key == RequestKey(header, query)
             ttl == SETTTL(ttlHeader)
         IN /\ call' = [call EXCEPT ![p] = Request("SET", key, body, ttl)]
            /\ IF key = ""
                 THEN /\ ret' = [ret EXCEPT ![p] = Response(400, <<>>)]
                      /\ UNCHANGED <<items, lastMut>>
                 ELSE /\ items' = Put(items, key, NewItem(StringVal(body), ttl, now))
                      /\ lastMut' = [lastMut EXCEPT ![key] =
                            PutMut("SetWithTTL", StringVal(body), ttl, now, @.over)]
                      /\ ret' = [ret EXCEPT ![p] = Response(204, <<>>)]
    /\ pc' = [pc EXCEPT ![p] = "done"]
    /\ lastKeys' = KeysWritten(lastKeys)
    /\ UNCHANGED <<mu, now>>

\* DELETE, lines 75-91, with the Delete of the store
HttpDELETE(p) ==
    /\ Free(p) /\ LockFree
    /\ \E header \in KeyParams, query \in KeyParams :
         LET key == RequestKey(header, query)
             d == DeleteResult(items, key)
         IN /\ call' = [call EXCEPT ![p] = Request("DELETE", key, <<>>, 0)]
            /\ IF key = ""
                 THEN /\ ret' = [ret EXCEPT ![p] = Response(400, <<>>)]
                      /\ UNCHANGED <<items, lastMut>>
                 ELSE /\ items' = d.items
                      /\ lastMut' = [lastMut EXCEPT ![key] = GoneMut("Delete")]
                      /\ ret' = [ret EXCEPT ![p] =
                            Response(IF d.existed THEN 204 ELSE 404, <<>>)]
    /\ pc' = [pc EXCEPT ![p] = "done"]
    /\ lastKeys' = KeysWritten(lastKeys)
    /\ UNCHANGED <<mu, now>>

\* the HTTP adapter over the engine: one client, the sweeper, the clock
NextHTTP ==
    \/ ClockAdvance
    \/ \E p \in Procs : HttpGET(p)
    \/ \E p \in Procs : HttpSET(p)
    \/ \E p \in Procs : HttpDELETE(p)
    \/ \E th \in Threads : LockBegin(th)
    \/ \E th \in Threads : LockAcquire(th)
    \/ SweepTick
    \/ Cleanup

SpecHTTP == Init /\ [][NextHTTP]_vars

\* ---------------------------------------------------------------- properties
\* the step in which Get(k) of caller p returns
GetReturns(p) == call[p].op = "Get" /\ pc[p] \in {"r", "w"} /\ pc'[p] = "done"

\* the last explicit mutation of k is a Set(k, v), which is SetWithTTL(k, v, 0)
IsSet(m) == m.op = "SetWithTTL" /\ m.ttl = 0
\* the last explicit mutation of k is a SetWithTTL(k, v, ttl) with ttl > 0
IsTTLWrite(m) == m.op = "SetWithTTL" /\ m.ttl > 0

\* the entry the last write put under k has passed its expiration at clock t
WritePast(m, t) == IsTTLWrite(m) /\ t > m.at + m.ttl

\* C1: once Set(k, v) has taken effect and no Set, SetWithTTL, Delete or Flush
\* on k followed it, every Get(k) returns (v, true), whatever the clock reads
\* and whatever sweeps and reads ran in between.
C1_SetThenGet ==
    [][\A p \in Procs :
          (GetReturns(p) /\ IsSet(lastMut[call[p].key]))
              => (ret'[p].found /\ ret'[p].val = lastMut[call[p].key].val)]_vars

C1_Witness ==
    \E p \in Procs :
        /\ pc[p] = "done" /\ call[p].op = "Get"
        /\ IsSet(lastMut[call[p].key])
        /\ ret[p].found /\ ret[p].val = lastMut[call[p].key].val
        /\ now = MaxTime
        /\ \E k \in Keys : IsTTLWrite(lastMut[k]) /\ ~Has(items, k)

\* C2: after SetWithTTL(k, v, ttl) with ttl > 0 at clock at, and no other
\* write to k: a Get(k) that reads a clock before at + ttl returns (v, true);
\* a Get(k) that reads a clock after at + ttl returns not-found and leaves k
\* out of the store, so that Size() does not count it.
C2_TTLGet ==
    [][\A p \in Procs :
          LET m == lastMut[call[p].key] IN
          (GetReturns(p) /\ IsTTLWrite(m))
              => /\ now < m.at + m.ttl => (ret'[p].found /\ ret'[p].val = m.val)
                 /\ now > m.at + m.ttl
                       => /\ ~ret'[p].found
                          /\ ~Has(items', call[p].key)
                          /\ SizeResult(items') = Cardinality(DOMAIN items' \ {call[p].key})]_vars

C2_Witness ==
    \E p \in Procs :
        LET m == lastMut[call[p].key] IN
        /\ pc[p] = "done" /\ call[p].op = "Get"
        /\ IsTTLWrite(m)
        /\ now > m.at + m.ttl
        /\ ~ret[p].found
        /\ ~Has(items, call[p].key)
        /\ pc[Sweeper] = "idle"

\* the steps in which the other methods of caller p return
ExistsReturns(p) == call[p].op = "Exists" /\ pc[p] \in {"r", "w"} /\ pc'[p] = "done"
DeleteReturns(p) == call[p].op = "Delete" /\ pc[p] = "w" /\ pc'[p] = "done"
KeysReturns(p) == call[p].op = "Keys" /\ pc[p] = "r" /\ pc'[p] = "done"
FlushReturns(p) == call[p].op = "Flush" /\ pc[p] = "w" /\ pc'[p] = "done"
SizeReturns(p) == call[p].op = "Size" /\ pc[p] = "r" /\ pc'[p] = "done"

\* the data model's liveness: an entry with expiresAt set is live while the
\* clock is strictly before expiresAt and expired from expiresAt on
Expired(item, t) == item.ExpiresAt # NilTime /\ t >= item.ExpiresAt[1]
\* an entry whose expiresAt lies strictly in the past
PastExpiry(item, t) == item.ExpiresAt # NilTime /\ t > item.ExpiresAt[1]

\* C3: an entry is expired at every clock >= expiresAt, the instant expiresAt
\* included; for an expired entry still in the store Get returns not-found,
\* Exists returns false and Keys does not list the key.
C3_ExpiredIsAbsent ==
    [][\A p \in Procs :
          LET k == call[p].key IN
          /\ (GetReturns(p) /\ Has(items, k) /\ Expired(items[k], now)) => ~ret'[p].found
          /\ (ExistsReturns(p) /\ Has(items, k) /\ Expired(items[k], now)) => ~ret'[p].found
          /\ KeysReturns(p) => \A x \in ret'[p].keys : ~Expired(items[x], now)]_vars

\* C4: Delete(k) returns true exactly when k is in the store right before it,
\* live or expired, and leaves k out of the store and the other keys as they
\* were; with no write to k since a Delete(k), Delete(k) returns false and
\* Get(k) returns not-found.
C4_Delete ==
    [][\A p \in Procs :
          LET k == call[p].key IN
          /\ DeleteReturns(p)
                => /\ ret'[p].found = (k \in DOMAIN items)
                   /\ DOMAIN items' = DOMAIN items \ {k}
                   /\ \A x \in DOMAIN items' : items'[x] = items[x]
          /\ (DeleteReturns(p) /\ lastMut[k].op = "Delete") => ~ret'[p].found
          /\ (GetReturns(p) /\ lastMut[k].op = "Delete") => ~ret'[p].found]_vars

C4_Witness ==
    \E p \in Procs :
        /\ pc[p] = "done" /\ call[p].op = "Delete"
        /\ ret[p].found
        /\ ~Has(items, call[p].key)
        /\ lastMut[call[p].key].op = "Delete"

\* C5: Flush() returns the number of entries in the store when it takes
\* effect, expired ones included, and removes them all; with no write since,
\* Size() returns 0, Keys() is empty and Get(k) is not-found for every k.
C5_Flush ==
    [][\A p \in Procs :
          /\ FlushReturns(p)
                => /\ ret'[p].count = Cardinality(DOMAIN items)
                   /\ DOMAIN items' = {}
          /\ (SizeReturns(p) /\ \A k \in Keys : lastMut[k].op = "Flush") => ret'[p].count = 0
          /\ (KeysReturns(p) /\ \A k \in Keys : lastMut[k].op = "Flush") => ret'[p].keys = {}
          /\ (GetReturns(p) /\ lastMut[call[p].key].op = "Flush") => ~ret'[p].found]_vars

C5_Witness ==
    \E p \in Procs :
        /\ pc[p] = "done" /\ call[p].op = "Flush"
        /\ ret[p].count = Cardinality(Keys)
        /\ DOMAIN items = {}
        /\ \A k \in Keys : lastMut[k].op = "Flush"

\* C6: Size() returns the number of keys in the store, entries past their
\* expiration included, and removes nothing.
C6_Size ==
    [][\A p \in Procs :
          SizeReturns(p) => (ret'[p].count = Cardinality(DOMAIN items) /\ items' = items)]_vars

C6_Witness ==
    \E p \in Procs :
        /\ pc[p] = "done" /\ call[p].op = "Size"
        /\ ret[p].count = Cardinality(Keys)
        /\ DOMAIN items = Keys
        /\ \A k \in Keys : WritePast(lastMut[k], now)

\* C7: Keys() returns exactly the keys whose entries are live: those in the
\* store without expiration or with the clock strictly before expiresAt.
C7_KeysAreLive ==
    [][\A p \in Procs :
          KeysReturns(p) => ret'[p].keys = {k \in DOMAIN items : ~Expired(items[k], now)}]_vars

\* C8: Keys() leaves the store as it was: every key, value and expiration,
\* the skipped expired entries too, and so the number Size() returns.
C8_KeysFrame ==
    [][\A p \in Procs :
          KeysReturns(p) => (items' = items /\ SizeResult(items') = SizeResult(items))]_vars

C8_Witness ==
    \E p \in Procs :
        /\ pc[p] = "done" /\ call[p].op = "Keys"
        /\ \E k \in DOMAIN items : k \notin ret[p].keys /\ PastExpiry(items[k], now)
        /\ ret[p].keys # {}

\* C9 as stated: two successive Keys() calls with no Set, SetWithTTL, Delete
\* or Flush between them return the same set of keys, whatever the clock did
\* and whatever Get, Exists or sweep ran between them.
C9_KeysRepeat ==
    [][\A p \in Procs :
          (KeysReturns(p) /\ lastKeys.valid) => ret'[p].keys = lastKeys.keys]_vars

\* C9 amended: the second of two such calls returns the keys of the first
\* whose entries have not passed their expiration by the second call: the
\* same set when none has, whatever Get, Exists or sweep ran between them.
C9_KeysRepeatLive ==
    [][\A p \in Procs :
          (KeysReturns(p) /\ lastKeys.valid)
              => ret'[p].keys = {k \in lastKeys.keys : ~WritePast(lastMut[k], now)}]_vars

C9_Witness ==
    \E p \in Procs :
        /\ pc[p] = "done" /\ call[p].op = "Keys"
        /\ lastKeys.valid /\ lastKeys.second
        /\ lastKeys.ran = {"read", "sweep"}
        /\ lastKeys.keys = ret[p].keys
        /\ ret[p].keys # {}
        /\ \E k \in Keys : WritePast(lastMut[k], now) /\ ~Has(items, k)


\* C10: Exists(k) answers as Get(k) does from the same store at the same
\* clock, in the shared region and in the exclusive one, and changes the store
\* as Get does: it removes k exactly when the re-check under the exclusive
\* lock finds the entry past its expiration, and nothing otherwise.
C10_ExistsAsGet ==
    [][\A p \in Procs :
          LET k == call[p].key IN
          /\ (call[p].op = "Exists" /\ pc[p] = "r" /\ pc'[p] # "r")
                => /\ ret'[p].found = GetFast(items, k, now).found
                   /\ (pc'[p] = "lock") = GetFast(items, k, now).upgrade
                   /\ items' = items
          /\ (call[p].op = "Exists" /\ pc[p] = "w" /\ pc'[p] # "w")
                => /\ ret'[p].found = GetSlow(items, k, now).found
                   /\ items' = GetSlow(items, k, now).items
                   /\ IF Has(items, k) /\ PastExpiry(items[k], now)
                        THEN items' = Remove(items, k)
                        ELSE items' = items]_vars

C10_Witness ==
    \E p \in Procs :
        /\ pc[p] = "done" /\ call[p].op = "Exists"
        /\ ~ret[p].found
        /\ IsTTLWrite(lastMut[call[p].key])
        /\ ~Has(items, call[p].key)
        /\ pc[Sweeper] = "idle"

\* the step in which SetWithTTL (and Set, which calls it) of caller p takes effect
WriteReturns(p) == call[p].op = "SetWithTTL" /\ pc[p] = "w" /\ pc'[p] = "done"

\* the last explicit mutation of k is a SetWithTTL(k, v, ttl) with ttl <= 0
IsNoTTLWrite(m) == m.op = "SetWithTTL" /\ m.ttl <= 0

\* C11: SetWithTTL(k, v, ttl) with ttl <= 0 leaves the store as Set(k, v),
\* which is SetWithTTL(k, v, 0), would: k maps to v with no expiration, the
\* other keys are as before; and while no other write to k follows, no Get,
\* Exists or sweep removes the entry, at any clock.
C11_NoTTLIsSet ==
    [][/\ \A p \in Procs :
            (WriteReturns(p) /\ call[p].ttl <= 0)
                => /\ items' = Put(items, call[p].key, NewItem(call[p].val, 0, now))
                   /\ items'[call[p].key] = CacheItem(call[p].val, NilTime)
       /\ \A k \in Keys :
            (IsNoTTLWrite(lastMut[k]) /\ lastMut'[k] = lastMut[k])
                => (Has(items', k) /\ items'[k] = CacheItem(lastMut[k].val, NilTime))]_vars

C11_Witness ==
    \E p \in Procs :
        /\ pc[p] = "done" /\ call[p].op = "Exists"
        /\ ret[p].found
        /\ lastMut[call[p].key].op = "SetWithTTL" /\ lastMut[call[p].key].ttl < 0
        /\ items[call[p].key] = CacheItem(lastMut[call[p].key].val, NilTime)
        /\ now = MaxTime
        /\ \E k \in Keys : WritePast(lastMut[k], now) /\ ~Has(items, k)

\* C12: a write replaces value and expiration together.  The entry a write
\* stores is made of the written value and of the expiration the write's own
\* ttl gives, whatever entry (live, expired but still stored, with or without
\* expiration) was under the key; so after a Set(k, v2) over an entry written
\* with a ttl, Get(k) returns (v2, true) at every later clock, and a Get(k)
\* that finds k returns the value of the last write, never an earlier one.
C12_WriteReplaces ==
    [][/\ \A p \in Procs :
            WriteReturns(p)
                => items' = [k \in DOMAIN items \cup {call[p].key} |->
                                IF k # call[p].key THEN items[k]
                                ELSE CacheItem(call[p].val,
                                               IF call[p].ttl > 0
                                                   THEN <<now + call[p].ttl>>
                                                   ELSE NilTime)]
       /\ \A p \in Procs :
            GetReturns(p)
                => /\ ret'[p].found => ret'[p].val = lastMut[call[p].key].val
                   /\ IsNoTTLWrite(lastMut[call[p].key]) => ret'[p].found
                   /\ (IsTTLWrite(lastMut[call[p].key])
                         /\ now < lastMut[call[p].key].at + lastMut[call[p].key].ttl)
                        => ret'[p].found]_vars

\* Get returned the value of a Set that replaced an entry whose expiration had
\* passed, and that carried another value
C12_Witness ==
    \E p \in Procs :
        /\ pc[p] = "done" /\ call[p].op = "Get"
        /\ IsSet(lastMut[call[p].key])
        /\ lastMut[call[p].key].over = "past"
        /\ ret[p].found /\ ret[p].val = "v2"
        /\ items[call[p].key] = CacheItem("v2", NilTime)
        /\ now = MaxTime

\* an entry is in the store under k and its expiration lies in the past
PastStored(k) == Has(items, k) /\ PastExpiry(items[k], now)
\* no write is in progress
NoWritePending == \A p \in Procs : ~(call[p].op = "SetWithTTL" /\ pc[p] \in {"lock", "wait", "w"})

\* C13: with a fair sweeper and no Get or Exists call at all, every stored
\* entry whose expiration has passed is eventually out of the store (removed
\* by a sweep, or replaced by a later write); and if from some point on no
\* write is in progress, then from some point on Size() is the number of
\* stored entries whose expiration has not passed, for good.
C13_SweepRemoves ==
    /\ \A k \in Keys : PastStored(k) ~> ~PastStored(k)
    /\ (<>[]NoWritePending)
          => <>[](SizeResult(items) =
                    Cardinality({k \in DOMAIN items : ~PastExpiry(items[k], now)}))

\* a sweep removed an entry written with a ttl, and Size() then counted the
\* one entry that is left
C13_Witness ==
    \E p \in Procs, k \in Keys :
        /\ WritePast(lastMut[k], now) /\ ~Has(items, k)
        /\ pc[p] = "done" /\ call[p].op = "Size"
        /\ ret[p].count = 1 /\ MapLen(items) = 1
        /\ pc[Sweeper] = "idle"

\* C17: one sweep, reading the clock once, deletes every entry whose
\* expiration is set and lies in the past at that clock, and nothing else: the
\* entries without expiration and those whose expiration has not passed stay
\* as they are.
C17_SweepExact ==
    [][(pc[Sweeper] = "w" /\ pc'[Sweeper] = "idle")
          => /\ DOMAIN items' = {k \in DOMAIN items : ~PastExpiry(items[k], now)}
             /\ \A k \in DOMAIN items' : items'[k] = items[k]]_vars

\* the sweep removed k, whose expiration had passed, and kept k2, written
\* before k expired and expiring at the present clock
C17_Witness ==
    \E k \in Keys, k2 \in Keys :
        /\ pc[Sweeper] = "idle"
        /\ WritePast(lastMut[k], now) /\ ~Has(items, k)
        /\ IsTTLWrite(lastMut[k2]) /\ lastMut[k2].at <= lastMut[k].at + lastMut[k].ttl
        /\ Has(items, k2) /\ items[k2].ExpiresAt = <<now>>

\* C20: Get, Exists and Keys agree on which entries are live.  In every
\* reachable store and at every clock, Get(k), Exists(k) and Keys() run alone
\* at that one instant give: Get finds k iff Exists reports k iff Keys lists k;
\* and whenever the locked re-check of Get or of Exists deletes the entry of k,
\* Keys at that clock omits k and a sweep at that clock deletes it.
C20_ReadsAgree ==
    \A k \in Keys :
        /\ GetAlone(items, k, now).found = ExistsAlone(items, k, now).found
        /\ GetAlone(items, k, now).found = (k \in KeysResult(items, now))
        /\ (GetSlow(items, k, now).items # items \/ ExistsSlow(items, k, now).items # items)
              => /\ k \notin KeysResult(items, now)
                 /\ Has(items, k) /\ ~Has(CleanupResult(items, now), k)

\* the clock reads exactly the expiration of a stored entry, where the test
\* under the shared lock (Before) and the one under the exclusive lock (After)
\* differ, and another stored entry is past its expiration
C20_Witness ==
    \E k \in Keys, k2 \in Keys :
        /\ Has(items, k) /\ items[k].ExpiresAt = <<now>>
        /\ GetFast(items, k, now).upgrade /\ GetAlone(items, k, now).found
        /\ Has(items, k2) /\ GetSlow(items, k2, now).items # items
        /\ \E p \in Procs : pc[p] = "done" /\ call[p].op = "Keys" /\ ret[p].keys = {k}

\* C14: no write is lost.  The callers Set one key each, concurrently with
\* one another and with the sweeper; every Get issued after all the Sets have
\* returned returns the value written under its key, found.
C14_NoLostWrite ==
    [][\A p \in Procs :
          GetReturns(p)
              => /\ IsSet(lastMut[call[p].key])
                 /\ ret'[p].found
                 /\ ret'[p].val = lastMut[call[p].key].val
                 /\ \A q \in Procs : Has(items', OwnKey(q))]_vars

\* both readers have returned, each the value written by the other caller,
\* and the two values differ
C14_Witness ==
    /\ \A p \in Procs : pc[p] = "done" /\ call[p].op = "Get" /\ ret[p].found
    /\ call["p1"].key = OwnKey("p2") /\ call["p2"].key = OwnKey("p1")
    /\ ret["p1"].val = "v2" /\ ret["p2"].val = "v1"
    /\ items = [k \in Keys |-> CacheItem(IF k = "a" THEN "v1" ELSE "v2", NilTime)]
    /\ now = MaxTime

\* a goroutine is inside a method or a sweep
InProgress(th) == pc[th] \in {"rlock", "r", "lock", "wait", "w"}
\* a step of a goroutine inside a method or a sweep
Progress ==
    \/ \E p \in Procs : RLock(p)
    \/ \E th \in Threads : LockBegin(th)
    \/ \E th \in Threads : LockAcquire(th)
    \/ \E p \in Procs : SetWithTTL(p)
    \/ \E p \in Procs : GetRead(p)
    \/ \E p \in Procs : GetRecheck(p)
    \/ \E p \in Procs : Delete(p)
    \/ \E p \in Procs : ExistsRead(p)
    \/ \E p \in Procs : ExistsRecheck(p)
    \/ \E p \in Procs : KeysScan(p)
    \/ \E p \in Procs : Flush(p)
    \/ \E p \in Procs : Size(p)
    \/ Cleanup

\* C15: no deadlock.  Whenever a method or a sweep is in progress, some
\* goroutine inside one can take a step; and no goroutine waits for the lock
\* while it holds it: one that requests the shared or the exclusive lock holds
\* neither side, in particular a Get or Exists that goes on to the re-check
\* has released the shared lock.
C15_NoDeadlock ==
    /\ (\E th \in Threads : InProgress(th)) => ENABLED Progress
    /\ \A th \in Threads :
          /\ pc[th] \in {"rlock", "lock"} => (th \notin mu.readers /\ mu.w # th)
          /\ pc[th] = "wait" => (th \notin mu.readers /\ mu.w = th)
          /\ pc[th] = "r" => th \in mu.readers
          /\ pc[th] = "w" => (mu.w = th /\ mu.readers = {})

\* a Get that found its entry expired waits for the exclusive lock while the
\* other caller reads under the shared lock and the sweeper is blocked behind
C15_Witness ==
    /\ pc["p1"] = "wait" /\ call["p1"].op = "Get"
    /\ pc["p2"] = "r" /\ mu.readers = {"p2"}
    /\ pc[Sweeper] = "lock"

\* a reader re-checks under the exclusive lock (lines 77-87, 116-125)
Rechecks(p) == call[p].op \in {"Get", "Exists"} /\ pc[p] = "w" /\ pc'[p] = "done"

\* C18: lazy deletion and concurrent steps.  When a reader that saw its key
\* expired re-checks under the exclusive lock: if the key now holds a live
\* entry (one written meanwhile) it deletes nothing and returns that entry,
\* found; if the key is gone it returns not-found and removes nothing; if the
\* key holds an expired entry it returns not-found and the key is out of the
\* store afterwards, so two readers that saw the same expired entry both
\* return not-found.
C18_LazyDelete ==
    [][\A p \in Procs :
          Rechecks(p) =>
            LET k == call[p].key IN
              /\ (Has(items, k) /\ ~Expired(items[k], now))
                    => /\ items' = items /\ ret'[p].found
                       /\ call[p].op = "Get" => ret'[p].val = items[k].Value
              /\ ~Has(items, k) => (items' = items /\ ~ret'[p].found)
              /\ (Has(items, k) /\ Expired(items[k], now))
                    => (~ret'[p].found /\ ~Has(items', k))]_vars

\* the step in which a sweep takes effect
SweepReturns == pc[Sweeper] = "w" /\ pc'[Sweeper] = "idle"
\* a goroutine inside an exclusive region excludes every other region
MutualExclusion ==
    \A th \in Threads :
        pc[th] = "w" => \A o \in Threads \ {th} : pc[o] \notin {"r", "w"}

\* C19: linearizability.  Every method call takes effect in one step between
\* its invocation and its return, the step in which it returns: in that step
\* the store and the returned values are those of the method run alone, at
\* that instant, on the store as it then is (for Get and Exists also when the
\* call went through both locked regions, with other calls in between); a
\* sweep takes effect in one step; no other step changes the store; and a
\* step under the exclusive lock (a Flush, a sweep) excludes every other locked
\* region, so no Keys, Size or Get sees it half-applied.
C19_Linearizable ==
    [][/\ \A p \in Procs :
            (pc'[p] = "done" /\ pc[p] # "done") =>
              LET k == call[p].key
                  op == call[p].op
                  g == GetAlone(items, k, now)
                  e == ExistsAlone(items, k, now)
              IN CASE op = "Get" ->
                        /\ ret'[p].found = g.found /\ ret'[p].val = g.val
                        /\ items' = g.items
                   [] op = "Exists" ->
                        ret'[p].found = e.found /\ items' = e.items
                   [] op = "SetWithTTL" ->
                        items' = Put(items, k, NewItem(call[p].val, call[p].ttl, now))
                   [] op = "Delete" ->
                        /\ ret'[p].found = Has(items, k)
                        /\ items' = [x \in DOMAIN items \ {k} |-> items[x]]
                   [] op = "Keys" ->
                        ret'[p].keys = KeysResult(items, now) /\ items' = items
                   [] op = "Flush" ->
                        ret'[p].count = MapLen(items) /\ items' = EmptyMap
                   [] op = "Size" ->
                        ret'[p].count = MapLen(items) /\ items' = items
       /\ SweepReturns => items' = CleanupResult(items, now)
       /\ (~SweepReturns /\ \A p \in Procs : pc'[p] = pc[p] \/ pc'[p] # "done")
             => items' = items
       /\ MutualExclusion']_vars

\* a Get that saw its entry expired holds the exclusive lock for the
\* re-check, and the entry it finds is live: the other caller's SetWithTTL
\* took effect between the two locked regions of the Get
C19_Witness ==
    /\ pc["p1"] = "w" /\ call["p1"].op = "Get"
    /\ Has(items, ConcKey) /\ GetLive(items[ConcKey], now)
    /\ pc["p2"] = "done" /\ call["p2"].op = "SetWithTTL"
    /\ pc[Sweeper] = "lock"

\* C16: HTTP round trip.  When the last request that changed a non-empty key
\* is a POST /set with body b and no ttl-seconds header, answered 204, a
\* GET /get of that key answers 200 with a body equal to b character for
\* character, leading and trailing white space included.
C16_RoundTrip ==
    \A p \in Procs :
        (/\ pc[p] = "done" /\ call[p].op = "GET" /\ call[p].key # ""
         /\ IsSet(lastMut[call[p].key]))
            => (ret[p].status = 200 /\ ret[p].body = lastMut[call[p].key].val.chars)

====
